---- MODULE Spec2Model ----
(***************************************************************************)
(* Adaptive octree compressor of a dense 3D scalar volume:                 *)
(*   generate_octree.py        block-value builder + encoder               *)
(*   generate_point_octree.py  point-sample builder + encoder              *)
(*   analyze_octree.py         decoder: fast walk and detailed walk        *)
(* A tree is kept as the sequence of its nodes in the order the            *)
(* constructors are entered (pre-order); the recursion of each routine is  *)
(* kept as an explicit stack of frames.                                    *)
(***************************************************************************)
EXTENDS Integers, Sequences, FiniteSets, TLC

VARIABLES
    dims,            \* <<nx, ny, nz>> of the volume
    data,            \* the volume: [<<x, y, z>> -> sample], numpy data[z, y, x]
    policy,          \* "block" (OctreeNode) or "point" (PointOctreeNode)
    max_depth,       \* PointOctreeNode's max_depth argument
    pc,              \* position in the pipeline build -> save -> analyze
    work,            \* pending constructor calls, next call first
    tree,            \* nodes constructed so far, in pre-order
    stream,          \* bytes of the octree file
    cuts,            \* bytes removed from the end of the file after writing
    fpos,            \* read position of the open file f
    total_voxels,    \* nx * ny * nz as unpacked from the header
    fstack,          \* count_octree_points.parse_node: children left per active call
    total_points,    \* count_octree_points counters
    leaf_points,
    internal_nodes,
    fast_ret,        \* value returned by the root parse_node: "none", "true", "false"
    fast_out,        \* lines printed by count_octree_points
    dstack,          \* parse_node_detailed: one frame per active internal call
    level_stats,     \* level -> [leaves, internals, voxels]
    det_ret,         \* <<voxels, leaves, internals>> returned by the root call, or <<>>
    det_out,         \* lines printed by detailed_octree_analysis
    preg,            \* the region handed to the three partitioners on their own
    pkids,           \* the children each of the three produced for preg
    req,             \* POST /generate-ply: the request body and the data file
    resp             \* the response of generate_ply, <<>> before it

vars == <<dims, data, policy, max_depth, pc, work, tree, stream, cuts, fpos,
          total_voxels, fstack, total_points, leaf_points, internal_nodes,
          fast_ret, fast_out, dstack, level_stats, det_ret, det_out, preg, pkids,
          req, resp>>

buildVars == <<work, tree>>
fastVars == <<fstack, total_points, leaf_points, internal_nodes, fast_ret, fast_out>>
detVars == <<dstack, level_stats, det_ret, det_out>>
partVars == <<preg, pkids>>
appVars == <<req, resp>>
inputVars == <<dims, data, policy, max_depth>>

(***************************************************************************)
(* Bounds of the model.                                                    *)
(***************************************************************************)
MaxDim == 3          \* volumes of 1..MaxDim samples per axis
MaxDepthCap == 1     \* max_depth arguments 0..MaxDepthCap besides main's value
MaxCut == 5          \* at most MaxCut bytes are cut off the written file
MaxOrigin == 1       \* partitioners on their own: origins 0..MaxOrigin per axis
MaxSize == 4         \* partitioners on their own: sizes 1..MaxSize per axis

(***************************************************************************)
(* Arithmetic helpers.                                                     *)
(***************************************************************************)
RECURSIVE Pow2(_)
Pow2(n) == IF n = 0 THEN 1 ELSE 2 * Pow2(n - 1)

Min2(a, b) == IF a <= b THEN a ELSE b

Min3(s) == Min2(s[1], Min2(s[2], s[3]))

Max3(s) == LET m == IF s[1] >= s[2] THEN s[1] ELSE s[2] IN IF m >= s[3] THEN m ELSE s[3]

Vol(s) == s[1] * s[2] * s[3]

RECURSIVE SumOver(_, _)
SumOver(S, f) ==
    IF S = {} THEN 0
    ELSE LET c == CHOOSE c \in S : TRUE IN f[c] + SumOver(S \ {c}, f)

MaxOver(S, f) == CHOOSE v \in {f[c] : c \in S} : \A c \in S : f[c] <= v

MinOver(S, f) == CHOOSE v \in {f[c] : c \in S} : \A c \in S : f[c] >= v

\* int(np.log2(n)) for n >= 1
RECURSIVE FloorLog2(_)
FloorLog2(n) == IF n < 2 THEN 0 ELSE 1 + FloorLog2(n \div 2)

\* ceil(log2(n)) for n >= 1
RECURSIVE CeilLog2(_)
CeilLog2(n) == IF n <= 1 THEN 0 ELSE 1 + CeilLog2((n + 1) \div 2)

(***************************************************************************)
(* Byte encodings.                                                         *)
(***************************************************************************)
\* np.array([n], dtype='<u4').tobytes(): 4 bytes, least significant first
U32LE(n) == << n % 256, (n \div 256) % 256, (n \div 65536) % 256, (n \div 16777216) % 256 >>

\* struct.unpack('<I', b)
FromU32LE(b) == b[1] + 256 * b[2] + 65536 * b[3] + 16777216 * b[4]

\* scale q up until q <= p < 2q: the binary exponent of p/q >= 1
RECURSIVE NormUp(_, _, _)
NormUp(p, q, e) == IF 2 * q <= p THEN NormUp(p, 2 * q, e + 1) ELSE [P |-> p, Q |-> q, e |-> e]

\* scale p up until q <= p < 2q: the binary exponent of p/q < 1
RECURSIVE NormDown(_, _, _)
NormDown(p, q, e) == IF p < q THEN NormDown(2 * p, q, e - 1) ELSE [P |-> p, Q |-> q, e |-> e]

\* k further bits of the significand m of P/Q, r the running remainder
RECURSIVE MantBits(_, _, _, _)
MantBits(m, r, Q, k) ==
    IF k = 0 THEN [m |-> m, r |-> r]
    ELSE IF 2 * r >= Q THEN MantBits(2 * m + 1, 2 * r - Q, Q, k - 1)
                       ELSE MantBits(2 * m, 2 * r, Q, k - 1)

\* the IEEE-754 binary32 pattern of the rational p/q >= 0, round to nearest even
F32Bits(p, q) ==
    IF p = 0 THEN 0
    ELSE LET n  == IF p >= q THEN NormUp(p, q, 0) ELSE NormDown(p, q, 0)
             mb == MantBits(1, n.P - n.Q, n.Q, 23)
             up == (2 * mb.r > n.Q) \/ (2 * mb.r = n.Q /\ mb.m % 2 = 1)
             m1 == IF up THEN mb.m + 1 ELSE mb.m
             ov == m1 = Pow2(24)
             m2 == IF ov THEN Pow2(23) ELSE m1
             e2 == IF ov THEN n.e + 1 ELSE n.e
         IN  (e2 + 127) * Pow2(23) + (m2 - Pow2(23))

\* mutant of F32LE: the value written big-endian, dtype='>f4' as the input file
F32BE(v) ==
    LET b == U32LE(F32Bits(v[1], v[2])) IN << b[4], b[3], b[2], b[1] >>

\* np.array([v], dtype='<f4').tobytes() of the value v = <<p, q>>
F32LE(v) == U32LE(F32Bits(v[1], v[2]))

(***************************************************************************)
(* The volume source: the families of volumes the builders are run on.     *)
(***************************************************************************)
Coords(d) == (0 .. d[1] - 1) \X (0 .. d[2] - 1) \X (0 .. d[3] - 1)

UniformData(d, v) == [c \in Coords(d) |-> v]

\* samples alternate between 0 and 1000 with the parity of x + y + z
CheckerData(d) == [c \in Coords(d) |-> IF (c[1] + c[2] + c[3]) % 2 = 0 THEN 0 ELSE 1000]

\* one sample of value v at h in a volume of zeros
HotData(d, h, v) == [c \in Coords(d) |-> IF c = h THEN v ELSE 0]

\* samples rise by 25 per step along every axis
RampData(d) == [c \in Coords(d) |-> 25 * (c[1] + c[2] + c[3])]

Corners(d) == {0, d[1] - 1} \X {0, d[2] - 1} \X {0, d[3] - 1}

Volumes(d) ==
    {UniformData(d, v) : v \in {0, 7}}
    \cup {CheckerData(d), RampData(d)}
    \cup {HotData(d, h, v) : h \in Corners(d), v \in {50, 51}}

IsUniform(f) == \A a, b \in DOMAIN f : f[a] = f[b]

(***************************************************************************)
(* Region partitioning: generate_octree.py 42-57,                          *)
(* generate_point_octree.py 82-106, analyze_octree.py 126-140.             *)
(***************************************************************************)
\* halfx = (sx + 1) // 2
Half(s) == (s + 1) \div 2

\* mutant of ChildSize: the high child gets halfx too
ChildSizeBothHalf(s, d) == Half(s)

\* csx = halfx if dx == 0 else sx - halfx
ChildSize(s, d) == IF d = 0 THEN Half(s) ELSE s - Half(s)

\* cx = minx + dx * halfx
ChildMin(m, s, d) == m + d * Half(s)

\* the region of the child (dx, dy, dz) of the region (min_coord, size)
ChildRegion(min_coord, size, dx, dy, dz) ==
    [min_coord |-> << ChildMin(min_coord[1], size[1], dx),
                      ChildMin(min_coord[2], size[2], dy),
                      ChildMin(min_coord[3], size[3], dz) >>,
     size      |-> << ChildSize(size[1], dx), ChildSize(size[2], dy), ChildSize(size[3], dz) >>]

\* OctreeNode: for dx in [0, 1]: for dy in [0, 1]: for dz in [0, 1]
OctreeChildren(min_coord, size) ==
    [i \in 1 .. 8 |->
        ChildRegion(min_coord, size, (i - 1) \div 4, ((i - 1) \div 2) % 2, (i - 1) % 2)]

\* PointOctreeNode: for dz in [0, 1]: for dy in [0, 1]: for dx in [0, 1]
PointChildren(min_coord, size) ==
    [i \in 1 .. 8 |->
        ChildRegion(min_coord, size, (i - 1) % 2, ((i - 1) \div 2) % 2, (i - 1) \div 4)]

\* mutant of child_sizes: the list in the order of PointOctreeNode, z outermost
child_sizesZOuter(size) ==
    LET half_x == (size[1] + 1) \div 2
        half_y == (size[2] + 1) \div 2
        half_z == (size[3] + 1) \div 2
    IN  << <<half_x, half_y, half_z>>,
           <<size[1] - half_x, half_y, half_z>>,
           <<half_x, size[2] - half_y, half_z>>,
           <<size[1] - half_x, size[2] - half_y, half_z>>,
           <<half_x, half_y, size[3] - half_z>>,
           <<size[1] - half_x, half_y, size[3] - half_z>>,
           <<half_x, size[2] - half_y, size[3] - half_z>>,
           <<size[1] - half_x, size[2] - half_y, size[3] - half_z>> >>

\* mutant of child_sizes: the last entry repeats half_z for size_z - half_z
child_sizesLastHalf(size) ==
    LET half_x == (size[1] + 1) \div 2
        half_y == (size[2] + 1) \div 2
        half_z == (size[3] + 1) \div 2
    IN  << <<half_x, half_y, half_z>>,
           <<half_x, half_y, size[3] - half_z>>,
           <<half_x, size[2] - half_y, half_z>>,
           <<half_x, size[2] - half_y, size[3] - half_z>>,
           <<size[1] - half_x, half_y, half_z>>,
           <<size[1] - half_x, half_y, size[3] - half_z>>,
           <<size[1] - half_x, size[2] - half_y, half_z>>,
           <<size[1] - half_x, size[2] - half_y, half_z>> >>

\* mutant of child_sizes: every child gets the first half on each axis
child_sizesAllHalf(size) ==
    LET h == << (size[1] + 1) \div 2, (size[2] + 1) \div 2, (size[3] + 1) \div 2 >>
    IN  << h, h, h, h, h, h, h, h >>

\* parse_node_detailed: the literal list child_sizes
child_sizes(size) ==
    LET size_x == size[1]
        size_y == size[2]
        size_z == size[3]
        half_x == (size_x + 1) \div 2
        half_y == (size_y + 1) \div 2
        half_z == (size_z + 1) \div 2
    IN  << <<half_x, half_y, half_z>>,
           <<half_x, half_y, size_z - half_z>>,
           <<half_x, size_y - half_y, half_z>>,
           <<half_x, size_y - half_y, size_z - half_z>>,
           <<size_x - half_x, half_y, half_z>>,
           <<size_x - half_x, half_y, size_z - half_z>>,
           <<size_x - half_x, size_y - half_y, half_z>>,
           <<size_x - half_x, size_y - half_y, size_z - half_z>> >>

\* the samples of a region: the cells of the box min_coord .. min_coord + size - 1
RegionCells(min_coord, size) ==
    (min_coord[1] .. min_coord[1] + size[1] - 1)
    \X (min_coord[2] .. min_coord[2] + size[2] - 1)
    \X (min_coord[3] .. min_coord[3] + size[3] - 1)

(***************************************************************************)
(* The builders.  A node is                                                *)
(*   [is_leaf, value, position, min_coord, size, depth]                    *)
(* value = <<p, q>> is the rational p/q (<<>> on an internal node),        *)
(* position the PointLeaf coordinate (<<>> otherwise); min_coord, size and *)
(* depth are the arguments of the constructor call that made the node.     *)
(***************************************************************************)
\* sub_data = data[minz:minz + sz, miny:miny + sy, minx:minx + sx], as the set of
\* its cells: a numpy slice keeps what lies inside the array
SubData(min_coord, size) == RegionCells(min_coord, size) \cap DOMAIN data

\* np.max(vals) - np.min(vals)
Fluctuation(cells) == MaxOver(cells, data) - MinOver(cells, data)

\* np.mean(vals)
Mean(cells) == << SumOver(cells, data), Cardinality(cells) >>

\* the fluctuation threshold of both builders
FluctuationThreshold == 50

LeafNode(call, value, position) ==
    [is_leaf |-> TRUE, value |-> value, position |-> position,
     min_coord |-> call.min_coord, size |-> call.size, depth |-> call.depth]

InternalNode(call) ==
    [is_leaf |-> FALSE, value |-> <<>>, position |-> <<>>,
     min_coord |-> call.min_coord, size |-> call.size, depth |-> call.depth]

\* mutant of OctreeNode: the subdivision check reads min(sx, sy, sz) <= 2
OctreeNodeMinLe2(call) ==
    LET size == call.size
        sub_data == SubData(call.min_coord, size)
    IN  IF size[1] <= 1 /\ size[2] <= 1 /\ size[3] <= 1
        THEN LeafNode(call, IF sub_data # {} THEN <<data[call.min_coord], 1>> ELSE <<0, 1>>, <<>>)
        ELSE IF sub_data = {}
        THEN LeafNode(call, <<0, 1>>, <<>>)
        ELSE IF Fluctuation(sub_data) <= FluctuationThreshold
        THEN LeafNode(call, Mean(sub_data), <<>>)
        ELSE IF Min3(size) <= 2
        THEN LeafNode(call, Mean(sub_data), <<>>)
        ELSE InternalNode(call)

\* mutant of OctreeNode: the fluctuation check reads < 50
OctreeNodeLt50(call) ==
    LET size == call.size
        sub_data == SubData(call.min_coord, size)
    IN  IF size[1] <= 1 /\ size[2] <= 1 /\ size[3] <= 1
        THEN LeafNode(call, IF sub_data # {} THEN <<data[call.min_coord], 1>> ELSE <<0, 1>>, <<>>)
        ELSE IF sub_data = {}
        THEN LeafNode(call, <<0, 1>>, <<>>)
        ELSE IF Fluctuation(sub_data) < FluctuationThreshold
        THEN LeafNode(call, Mean(sub_data), <<>>)
        ELSE IF Min3(size) < 2
        THEN LeafNode(call, Mean(sub_data), <<>>)
        ELSE InternalNode(call)

\* mutant of OctreeNode: the check min(sx, sy, sz) < 2 is missing
OctreeNodeNoMinCheck(call) ==
    LET size == call.size
        sub_data == SubData(call.min_coord, size)
    IN  IF size[1] <= 1 /\ size[2] <= 1 /\ size[3] <= 1
        THEN LeafNode(call, IF sub_data # {} THEN <<data[call.min_coord], 1>> ELSE <<0, 1>>, <<>>)
        ELSE IF sub_data = {}
        THEN LeafNode(call, <<0, 1>>, <<>>)
        ELSE IF Fluctuation(sub_data) <= FluctuationThreshold
        THEN LeafNode(call, Mean(sub_data), <<>>)
        ELSE InternalNode(call)

\* OctreeNode.__init__ up to the creation of the children
OctreeNode(call) ==
    LET size == call.size
        sub_data == SubData(call.min_coord, size)
    IN  IF size[1] <= 1 /\ size[2] <= 1 /\ size[3] <= 1
        THEN LeafNode(call, IF sub_data # {} THEN <<data[call.min_coord], 1>> ELSE <<0, 1>>, <<>>)
        ELSE IF sub_data = {}
        THEN LeafNode(call, <<0, 1>>, <<>>)
        ELSE IF Fluctuation(sub_data) <= FluctuationThreshold
        THEN LeafNode(call, Mean(sub_data), <<>>)
        ELSE IF Min3(size) < 2
        THEN LeafNode(call, Mean(sub_data), <<>>)
        ELSE InternalNode(call)

\* mutant of Center: the half rounded up
CenterCeil(min_coord, size) ==
    << min_coord[1] + (size[1] + 1) \div 2, min_coord[2] + (size[2] + 1) \div 2,
       min_coord[3] + (size[3] + 1) \div 2 >>

\* (center_x, center_y, center_z)
Center(min_coord, size) ==
    << min_coord[1] + size[1] \div 2, min_coord[2] + size[2] \div 2, min_coord[3] + size[3] \div 2 >>

\* 0 <= center_x < data.shape[2] and 0 <= center_y < data.shape[1] and 0 <= center_z < data.shape[0]
InVolume(c) ==
    /\ 0 <= c[1] /\ c[1] < dims[1]
    /\ 0 <= c[2] /\ c[2] < dims[2]
    /\ 0 <= c[3] /\ c[3] < dims[3]

\* mutant of PointOctreeNode: the first check lacks current_depth >= max_depth
PointOctreeNodeNoCap(call) ==
    LET size == call.size
        center == Center(call.min_coord, size)
        sub_data == SubData(call.min_coord, size)
    IN  IF Min3(size) <= 1
        THEN LeafNode(call, IF InVolume(center) THEN <<data[center], 1>> ELSE <<0, 1>>, center)
        ELSE IF sub_data = {}
        THEN LeafNode(call, <<0, 1>>, center)
        ELSE IF Fluctuation(sub_data) <= FluctuationThreshold
        THEN LeafNode(call, IF InVolume(center) THEN <<data[center], 1>> ELSE Mean(sub_data), center)
        ELSE IF Min3(size) < 2
        THEN LeafNode(call, IF InVolume(center) THEN <<data[center], 1>> ELSE Mean(sub_data), center)
        ELSE InternalNode(call)

\* mutant of PointOctreeNode: the depth cap reads current_depth > max_depth
PointOctreeNodeGtCap(call) ==
    LET size == call.size
        center == Center(call.min_coord, size)
        sub_data == SubData(call.min_coord, size)
    IN  IF call.depth > max_depth \/ Min3(size) <= 1
        THEN LeafNode(call, IF InVolume(center) THEN <<data[center], 1>> ELSE <<0, 1>>, center)
        ELSE IF sub_data = {}
        THEN LeafNode(call, <<0, 1>>, center)
        ELSE IF Fluctuation(sub_data) <= FluctuationThreshold
        THEN LeafNode(call, IF InVolume(center) THEN <<data[center], 1>> ELSE Mean(sub_data), center)
        ELSE IF Min3(size) < 2
        THEN LeafNode(call, IF InVolume(center) THEN <<data[center], 1>> ELSE Mean(sub_data), center)
        ELSE InternalNode(call)

\* PointOctreeNode.__init__ up to the creation of the children
PointOctreeNode(call) ==
    LET size == call.size
        center == Center(call.min_coord, size)
        sub_data == SubData(call.min_coord, size)
    IN  IF call.depth >= max_depth \/ Min3(size) <= 1
        THEN LeafNode(call, IF InVolume(center) THEN <<data[center], 1>> ELSE <<0, 1>>, center)
        ELSE IF sub_data = {}
        THEN LeafNode(call, <<0, 1>>, center)
        ELSE IF Fluctuation(sub_data) <= FluctuationThreshold
        THEN LeafNode(call, IF InVolume(center) THEN <<data[center], 1>> ELSE Mean(sub_data), center)
        ELSE IF Min3(size) < 2
        THEN LeafNode(call, IF InVolume(center) THEN <<data[center], 1>> ELSE Mean(sub_data), center)
        ELSE InternalNode(call)

\* mutant of ChildCalls: the last child is not made
ChildCallsSeven(node) ==
    LET kids == IF policy = "block" THEN OctreeChildren(node.min_coord, node.size)
                                    ELSE PointChildren(node.min_coord, node.size)
    IN  [i \in 1 .. 7 |->
            [min_coord |-> kids[i].min_coord, size |-> kids[i].size, depth |-> node.depth + 1]]

\* the constructor calls an internal node makes for its children, in order
ChildCalls(node) ==
    LET kids == IF policy = "block" THEN OctreeChildren(node.min_coord, node.size)
                                    ELSE PointChildren(node.min_coord, node.size)
    IN  [i \in 1 .. 8 |->
            [min_coord |-> kids[i].min_coord, size |-> kids[i].size, depth |-> node.depth + 1]]

\* mutant of MainMaxDepth: max_depth = int(np.log2(min(nx, ny, nz)))
MainMaxDepthNoPlus1(d) == FloorLog2(Min3(d))

\* max_depth = int(np.log2(min(nx, ny, nz))) + 1
MainMaxDepth(d) == FloorLog2(Min3(d)) + 1

(***************************************************************************)
(* The encoder: OctreeNode.save, PointOctreeNode.save and the header       *)
(* written by main.                                                        *)
(***************************************************************************)
\* f.write(np.array([nx, ny, nz], dtype='<u4').tobytes())
Header(d) == U32LE(d[1]) \o U32LE(d[2]) \o U32LE(d[3])

\* mutant of BlockLeafBytes: the value written without dtype, as 8 bytes
BlockLeafBytesF8(node) == <<0>> \o <<0, 0, 0, 0>> \o F32LE(node.value)

\* OctreeNode.save, leaf: the tag 0 and the value
BlockLeafBytes(node) == <<0>> \o F32LE(node.value)

\* mutant of PointLeafBytes: the position is not written
PointLeafBytesNoPos(node) == <<0>> \o F32LE(node.value)

\* PointOctreeNode.save, leaf: the tag 0, the value and the position as 3 floats
PointLeafBytes(node) ==
    <<0>> \o F32LE(node.value)
          \o F32LE(<<node.position[1], 1>>)
          \o F32LE(<<node.position[2], 1>>)
          \o F32LE(<<node.position[3], 1>>)

LeafBytes(node) == IF policy = "block" THEN BlockLeafBytes(node) ELSE PointLeafBytes(node)

\* the tag byte of an internal node
InternalTag == 1

\* save of the subtree rooted at node i of the pre-order sequence t:
\* [bytes written, index of the node after the subtree]
RECURSIVE save(_, _), SaveChildren(_, _, _, _)
save(t, i) ==
    IF t[i].is_leaf
    THEN [bytes |-> LeafBytes(t[i]), next |-> i + 1]
    ELSE SaveChildren(t, i + 1, Len(ChildCalls(t[i])), <<InternalTag>>)

\* for child in self.children: child.save(f), k children left
SaveChildren(t, i, k, acc) ==
    IF k = 0 THEN [bytes |-> acc, next |-> i]
    ELSE LET r == save(t, i) IN SaveChildren(t, r.next, k - 1, acc \o r.bytes)

(***************************************************************************)
(* The pipeline: build, save, analyze.                                     *)
(***************************************************************************)
RootCall(d) == [min_coord |-> <<0, 0, 0>>, size |-> d, depth |-> 0]

NoStats == [l \in {} |-> 0]

\* the analyzer's variables before it runs
Idle ==
    /\ stream = <<>> /\ cuts = 0 /\ fpos = 0 /\ total_voxels = 0
    /\ fstack = <<>> /\ total_points = 0 /\ leaf_points = 0 /\ internal_nodes = 0
    /\ fast_ret = "none" /\ fast_out = <<>>
    /\ dstack = <<>> /\ level_stats = NoStats /\ det_ret = <<>> /\ det_out = <<>>

PartIdle == preg = <<>> /\ pkids = <<>>

\* no request has been made
AppIdle == req = <<>> /\ resp = <<>>

\* the volume of the uniform scenario: 4 x 4 x 4
ScenarioDims == <<4, 4, 4>>

Init ==
    /\ dims \in ((1 .. MaxDim) \X (1 .. MaxDim) \X (1 .. MaxDim)) \cup {ScenarioDims}
    /\ data \in Volumes(dims)
    /\ policy \in {"block", "point"}
    /\ max_depth \in IF policy = "point" THEN (0 .. MaxDepthCap) \cup {MainMaxDepth(dims)} ELSE {0}
    /\ pc = "build"
    /\ work = << RootCall(dims) >>
    /\ tree = <<>>
    /\ Idle
    /\ PartIdle
    /\ AppIdle

\* one constructor call: the node is made and, if internal, its 8 child calls queued
BuildStep ==
    /\ pc = "build"
    /\ work # <<>>
    /\ LET call == Head(work)
           node == IF policy = "block" THEN OctreeNode(call) ELSE PointOctreeNode(call)
           rest == IF node.is_leaf THEN Tail(work) ELSE ChildCalls(node) \o Tail(work)
       IN  /\ tree' = Append(tree, node)
           /\ work' = rest
           /\ pc' = IF rest = <<>> THEN "save" ELSE "build"
    /\ UNCHANGED <<inputVars, stream, cuts, fpos, total_voxels, fastVars, detVars, partVars, appVars>>

\* main: the header, then root.save(f)
Save ==
    /\ pc = "save"
    /\ stream' = Header(dims) \o save(tree, 1).bytes
    /\ pc' = "written"
    /\ UNCHANGED <<inputVars, buildVars, cuts, fpos, total_voxels, fastVars, detVars, partVars, appVars>>

\* the written file loses its last byte before it is analyzed
Truncate ==
    /\ pc = "written"
    /\ cuts < MaxCut
    /\ stream # <<>>
    /\ stream' = SubSeq(stream, 1, Len(stream) - 1)
    /\ cuts' = cuts + 1
    /\ UNCHANGED <<inputVars, buildVars, pc, fpos, total_voxels, fastVars, detVars, partVars, appVars>>

(***************************************************************************)
(* analyze_octree.py: count_octree_points (the fast walk).                 *)
(***************************************************************************)
\* nx, ny, nz = struct.unpack('<III', header_data)
HeaderDims(b) ==
    << FromU32LE(SubSeq(b, 1, 4)), FromU32LE(SubSeq(b, 5, 8)), FromU32LE(SubSeq(b, 9, 12)) >>

\* the bytes of a leaf payload the fast walk reads
FastPayload == 4

\* for _ in range(8)
FastFanout == 8

\* is_leaf = (node_type[0] == 0)
IsLeafTag(b) == b = 0

\* the bytes f.read(n) returns at position pos
ReadLen(pos, n) == Min2(n, Len(stream) - pos)

\* mutant of PayloadIncomplete: the payload is tested like the tag, for an empty read
PayloadIncompleteEmpty(n) == n = 0

\* len(value_data) < 4
PayloadIncomplete(n) == n < FastPayload

\* mutant of FastReturnTrue: the loop over the children runs once more
RECURSIVE FastReturnTrueNine(_)
FastReturnTrueNine(st) ==
    IF st = <<>> THEN <<>>
    ELSE IF Head(st) = 0 THEN FastReturnTrueNine(Tail(st))
    ELSE << Head(st) - 1 >> \o Tail(st)

\* a child parse_node returned True: the callers' loops go on; the frames whose
\* loop is over return True in turn
RECURSIVE FastReturnTrue(_)
FastReturnTrue(st) ==
    IF st = <<>> THEN <<>>
    ELSE IF Head(st) = 1 THEN FastReturnTrue(Tail(st))
    ELSE << Head(st) - 1 >> \o Tail(st)

\* header_data = f.read(12) ... up to the first call of parse_node
FastOpen ==
    /\ pc = "written"
    /\ IF Len(stream) < 12
       THEN /\ fast_out' = << "header_error" >>
            /\ fpos' = Len(stream)
            /\ pc' = "fast_done"
            /\ UNCHANGED total_voxels
       ELSE /\ total_voxels' = Vol(HeaderDims(stream))
            /\ fast_out' = << "dims", "total_voxels" >>
            /\ fpos' = 12
            /\ pc' = "fast"
    /\ UNCHANGED <<inputVars, buildVars, stream, cuts, fstack, total_points, leaf_points,
                   internal_nodes, fast_ret, detVars, partVars, appVars>>

\* one call of parse_node, up to its next recursive call or its return
FastParseNode ==
    /\ pc = "fast"
    /\ fast_ret = "none"
    /\ IF fpos >= Len(stream)
       THEN \* len(node_type) == 0: return False, and so does every caller
            /\ fast_ret' = "false"
            /\ fstack' = <<>>
            /\ UNCHANGED <<fpos, total_points, leaf_points, internal_nodes, fast_out>>
       ELSE IF IsLeafTag(stream[fpos + 1])
       THEN IF PayloadIncomplete(ReadLen(fpos + 1, FastPayload))
            THEN \* the message, return False, and so does every caller
                 /\ fpos' = fpos + 1 + ReadLen(fpos + 1, FastPayload)
                 /\ fast_out' = Append(fast_out, "leaf_incomplete")
                 /\ fast_ret' = "false"
                 /\ fstack' = <<>>
                 /\ UNCHANGED <<total_points, leaf_points, internal_nodes>>
            ELSE /\ fpos' = fpos + 1 + FastPayload
                 /\ leaf_points' = leaf_points + 1
                 /\ total_points' = total_points + 1
                 /\ fstack' = FastReturnTrue(fstack)
                 /\ fast_ret' = IF FastReturnTrue(fstack) = <<>> THEN "true" ELSE "none"
                 /\ UNCHANGED <<internal_nodes, fast_out>>
       ELSE /\ fpos' = fpos + 1
            /\ internal_nodes' = internal_nodes + 1
            /\ total_points' = total_points + 1
            /\ fstack' = << FastFanout >> \o fstack
            /\ UNCHANGED <<leaf_points, fast_ret, fast_out>>
    /\ UNCHANGED <<inputVars, buildVars, stream, cuts, pc, total_voxels, detVars, partVars, appVars>>

\* if parse_node(): the statistics ... else: the failure message
FastReport ==
    /\ pc = "fast"
    /\ fast_ret # "none"
    /\ fast_out' =
          IF fast_ret = "true"
          THEN fast_out \o << "stats", "total_nodes", "leaf_nodes", "internal_nodes", "ratio" >>
                        \o (IF total_voxels = 0 THEN << "read_error" >> ELSE << "saving" >>)
          ELSE Append(fast_out, "parse_error")
    /\ pc' = "fast_done"
    /\ UNCHANGED <<inputVars, buildVars, stream, cuts, fpos, total_voxels, fstack,
                   total_points, leaf_points, internal_nodes, fast_ret, detVars, partVars, appVars>>

(***************************************************************************)
(* analyze_octree.py: detailed_octree_analysis (the detailed walk).        *)
(* A frame of dstack is an active internal call of parse_node_detailed:    *)
(* [todo: the child sizes not yet parsed, level, vox, leaves, internals].  *)
(***************************************************************************)
\* the bytes f.read(4) asks for after a leaf tag
DetPayload == 4

\* the arguments of the next call of parse_node_detailed
DetNextCall ==
    IF dstack = <<>>
    THEN [size |-> HeaderDims(stream), level |-> 0]
    ELSE [size |-> Head(Head(dstack).todo), level |-> Head(dstack).level + 1]

\* level_stats[current_level] after `if current_level not in level_stats`
StatsAt(ls, l) == IF l \in DOMAIN ls THEN ls[l] ELSE [leaves |-> 0, internals |-> 0, voxels |-> 0]

WithStats(ls, l, rec) == [k \in DOMAIN ls \cup {l} |-> IF k = l THEN rec ELSE ls[k]]

\* mutant of DetReturn: an internal call returns its children's totals without
\* counting itself
RECURSIVE DetReturnNoSelf(_, _)
DetReturnNoSelf(st, ret) ==
    IF st = <<>> THEN [stack |-> <<>>, ret |-> ret]
    ELSE LET fr == Head(st)
             acc == [fr EXCEPT !.todo = Tail(fr.todo),
                               !.vox = fr.vox + ret[1],
                               !.leaves = fr.leaves + ret[2],
                               !.internals = fr.internals + ret[3]]
         IN  IF acc.todo = <<>>
             THEN DetReturnNoSelf(Tail(st), << acc.vox, acc.leaves, acc.internals >>)
             ELSE [stack |-> << acc >> \o Tail(st), ret |-> <<>>]

\* a call returned ret = <<voxels, leaves, internals>>: the caller adds it up and
\* goes on with its next child, or returns its own totals when none is left
RECURSIVE DetReturn(_, _)
DetReturn(st, ret) ==
    IF st = <<>> THEN [stack |-> <<>>, ret |-> ret]
    ELSE LET fr == Head(st)
             acc == [fr EXCEPT !.todo = Tail(fr.todo),
                               !.vox = fr.vox + ret[1],
                               !.leaves = fr.leaves + ret[2],
                               !.internals = fr.internals + ret[3]]
         IN  IF acc.todo = <<>>
             THEN DetReturn(Tail(st), << acc.vox, acc.leaves, acc.internals + 1 >>)
             ELSE [stack |-> << acc >> \o Tail(st), ret |-> <<>>]

\* header_data = f.read(12) ... up to the first call of parse_node_detailed
DetOpen ==
    /\ pc = "fast_done"
    /\ IF Len(stream) < 12
       THEN /\ det_out' = << "header_error" >>
            /\ fpos' = Len(stream)
            /\ pc' = "done"
            /\ UNCHANGED total_voxels
       ELSE /\ total_voxels' = Vol(HeaderDims(stream))
            /\ det_out' = << "title", "dims", "total_voxels" >>
            /\ fpos' = 12
            /\ pc' = "detailed"
    /\ UNCHANGED <<inputVars, buildVars, stream, cuts, fastVars, dstack, level_stats, det_ret,
                   partVars, appVars>>

\* one call of parse_node_detailed, up to its next recursive call or its return
DetParseNode ==
    /\ pc = "detailed"
    /\ det_ret = <<>>
    /\ LET call == DetNextCall
           voxels_in_node == Vol(call.size)
           old == StatsAt(level_stats, call.level)
       IN  IF fpos >= Len(stream)
           THEN \* len(node_type) == 0: return 0, 0, 0
                /\ dstack' = DetReturn(dstack, <<0, 0, 0>>).stack
                /\ det_ret' = DetReturn(dstack, <<0, 0, 0>>).ret
                /\ UNCHANGED <<fpos, level_stats>>
           ELSE IF IsLeafTag(stream[fpos + 1])
           THEN \* f.read(4) takes what is left of the file, at most 4 bytes
                /\ fpos' = fpos + 1 + ReadLen(fpos + 1, DetPayload)
                /\ level_stats' = WithStats(level_stats, call.level,
                                      [old EXCEPT !.leaves = @ + 1, !.voxels = @ + voxels_in_node])
                /\ dstack' = DetReturn(dstack, << voxels_in_node, 1, 0 >>).stack
                /\ det_ret' = DetReturn(dstack, << voxels_in_node, 1, 0 >>).ret
           ELSE /\ fpos' = fpos + 1
                /\ level_stats' = WithStats(level_stats, call.level,
                                      [old EXCEPT !.internals = @ + 1])
                /\ dstack' = << [todo |-> child_sizes(call.size), level |-> call.level,
                                 vox |-> 0, leaves |-> 0, internals |-> 0] >> \o dstack
                /\ UNCHANGED det_ret
    /\ UNCHANGED <<inputVars, buildVars, stream, cuts, pc, total_voxels, fastVars, det_out,
                   partVars, appVars>>

\* the statistics, the per-level table and the mismatch warning; a division by
\* zero ends the report with the message of the except clause
DetReport ==
    /\ pc = "detailed"
    /\ det_ret # <<>>
    /\ LET total_voxels_counted == det_ret[1]
           total_leaves == det_ret[2]
           total_internals == det_ret[3]
           counts == << "stats", "voxels_counted", "leaf_nodes", "internal_nodes", "total_nodes" >>
       IN  det_out' =
              IF total_leaves + total_internals = 0
              THEN det_out \o counts \o << "error" >>
              ELSE IF total_leaves = 0
              THEN det_out \o counts \o << "ratio", "error" >>
              ELSE det_out \o counts \o << "ratio", "avg_leaf", "levels" >>
                           \o (IF total_voxels_counted # total_voxels
                               THEN << "mismatch_warning" >> ELSE <<>>)
    /\ pc' = "done"
    /\ UNCHANGED <<inputVars, buildVars, stream, cuts, fpos, total_voxels, fastVars, dstack,
                   level_stats, det_ret, partVars, appVars>>

Next ==
    \/ BuildStep
    \/ Save
    \/ Truncate
    \/ FastOpen
    \/ FastParseNode
    \/ FastReport
    \/ DetOpen
    \/ DetParseNode
    \/ DetReport

Spec == Init /\ [][Next]_vars

(***************************************************************************)
(* The partitioners on their own: every region of a bounded box is handed  *)
(* to the two builders' child loops and to the decoder's child_sizes.      *)
(***************************************************************************)
InitPart ==
    /\ preg \in [min_coord : (0 .. MaxOrigin) \X (0 .. MaxOrigin) \X (0 .. MaxOrigin),
                 size : (1 .. MaxSize) \X (1 .. MaxSize) \X (1 .. MaxSize)]
    /\ pkids = <<>>
    /\ dims = preg.size
    /\ data = UniformData(dims, 0)
    /\ policy = "block"
    /\ max_depth = 0
    /\ pc = "partition"
    /\ work = <<>>
    /\ tree = <<>>
    /\ Idle
    /\ AppIdle

Partition ==
    /\ pc = "partition"
    /\ pkids = <<>>
    /\ pkids' = [block |-> OctreeChildren(preg.min_coord, preg.size),
                 point |-> PointChildren(preg.min_coord, preg.size),
                 dec   |-> child_sizes(preg.size)]
    /\ UNCHANGED <<inputVars, buildVars, pc, stream, cuts, fpos, total_voxels, fastVars,
                   detVars, preg, appVars>>

NextPart == Partition

SpecPart == InitPart /\ [][NextPart]_vars

(***************************************************************************)
(* The 8 x 8 x 8 volume of alternating 0 and 1000 under the block-value    *)
(* policy.                                                                 *)
(***************************************************************************)
CubeDims == <<8, 8, 8>>

InitCube ==
    /\ dims = CubeDims
    /\ data = CheckerData(dims)
    /\ policy = "block"
    /\ max_depth = 0
    /\ pc = "build"
    /\ work = << RootCall(dims) >>
    /\ tree = <<>>
    /\ Idle
    /\ PartIdle
    /\ AppIdle

SpecCube == InitCube /\ [][Next]_vars

(***************************************************************************)
(* Properties.                                                             *)
(***************************************************************************)
Range(q) == {q[i] : i \in 1 .. Len(q)}

Leaves(t) == Cardinality({i \in 1 .. Len(t) : t[i].is_leaf})

Internals(t) == Cardinality({i \in 1 .. Len(t) : ~t[i].is_leaf})

\* count_octree_points has returned
FastFinished == pc \in {"fast_done", "detailed", "done"}

\* the file has been written by main
Written == pc \notin {"build", "save", "partition"}

StatLines == {"stats", "total_nodes", "leaf_nodes", "internal_nodes", "ratio", "saving"}

\* C1: round trip, block-value policy: the fast walk over the untouched stream of
\* a block tree succeeds and its total, leaf and internal counts are the numbers
\* of nodes, leaves and internal nodes of the built tree.
C1_RoundTripBlock ==
    (policy = "block" /\ cuts = 0 /\ FastFinished) =>
        /\ fast_ret = "true"
        /\ total_points = Len(tree)
        /\ leaf_points = Leaves(tree)
        /\ internal_nodes = Internals(tree)
        /\ "total_nodes" \in Range(fast_out)

C1_Witness ==
    /\ policy = "block" /\ cuts = 0 /\ FastFinished
    /\ fast_ret = "true"
    /\ internal_nodes >= 2
    /\ total_points = Len(tree)

\* C2: round trip, point-sample policy: the fast walk over the untouched stream
\* of a point tree (16-byte leaf payloads) succeeds with the counts of the built
\* tree.
C2_RoundTripPoint ==
    (policy = "point" /\ cuts = 0 /\ FastFinished) =>
        /\ fast_ret = "true"
        /\ total_points = Len(tree)
        /\ leaf_points = Leaves(tree)
        /\ internal_nodes = Internals(tree)

\* C3 as claimed: the i-th child of the block builder, of the point builder and
\* of the decoder's child_sizes have the same size, for every i.
C3_OneChildOrder ==
    pkids # <<>> =>
        \A i \in 1 .. 8 :
            /\ pkids.block[i].size = pkids.point[i].size
            /\ pkids.block[i].size = pkids.dec[i]

\* the index of the child (dz, dy, dx) in the order (dx, dy, dz)
SwapXZ(i) == 4 * ((i - 1) % 2) + 2 * (((i - 1) \div 2) % 2) + (i - 1) \div 4 + 1

\* C3 amended: the block builder and the decoder list the children in the same
\* order (x outermost, z innermost); the point builder lists the same 8 regions
\* with z outermost and x innermost.
C3_BlockDecoderOrder ==
    pkids # <<>> =>
        \A i \in 1 .. 8 :
            /\ pkids.block[i].size = pkids.dec[i]
            /\ pkids.point[i] = pkids.block[SwapXZ(i)]

C3_Witness ==
    /\ pkids # <<>>
    /\ pkids.block[2].size # pkids.point[2].size
    /\ pkids.block[2].size = pkids.dec[2]

\* the cells of the i-th child
KidCells(kids, i) == RegionCells(kids[i].min_coord, kids[i].size)

Tiles(kids, region) ==
    /\ \A i, j \in 1 .. 8 : i # j => KidCells(kids, i) \cap KidCells(kids, j) = {}
    /\ UNION {KidCells(kids, i) : i \in 1 .. 8} = RegionCells(region.min_coord, region.size)
    /\ Vol(kids[1].size) + Vol(kids[2].size) + Vol(kids[3].size) + Vol(kids[4].size)
       + Vol(kids[5].size) + Vol(kids[6].size) + Vol(kids[7].size) + Vol(kids[8].size)
         = Vol(region.size)

\* C4: partition completeness: the 8 children of a region of size >= (1,1,1)
\* are pairwise disjoint, their union is the region and their volumes add up to
\* its volume; the decoder's child sizes add up to it as well.
C4_PartitionTiles ==
    pkids # <<>> =>
        /\ Tiles(pkids.block, preg)
        /\ Tiles(pkids.point, preg)
        /\ Vol(pkids.dec[1]) + Vol(pkids.dec[2]) + Vol(pkids.dec[3]) + Vol(pkids.dec[4])
           + Vol(pkids.dec[5]) + Vol(pkids.dec[6]) + Vol(pkids.dec[7]) + Vol(pkids.dec[8])
             = Vol(preg.size)

C4_Witness ==
    /\ pkids # <<>>
    /\ preg.size = <<3, 2, 1>>
    /\ preg.min_coord = <<1, 0, 1>>
    /\ Tiles(pkids.block, preg)

\* C5: truncation in fast mode: a parse that meets the end of the stream at a tag
\* or inside a leaf payload stops there (no caller goes on), reports the failure
\* and prints no statistics; a block stream that lost bytes at its end never
\* gets statistics.
C5_FastTruncation ==
    /\ fast_ret = "false" => fstack = <<>>
    /\ (fast_ret = "false" /\ pc \in {"fast", "fast_done"}) => fpos = Len(stream)
    /\ (FastFinished /\ fast_ret = "false") =>
           /\ "parse_error" \in Range(fast_out)
           /\ Range(fast_out) \cap StatLines = {}
    /\ (FastFinished /\ policy = "block" /\ cuts >= 1 /\ Len(stream) >= 12) =>
           /\ fast_ret = "false"
           /\ "parse_error" \in Range(fast_out)
           /\ Range(fast_out) \cap StatLines = {}

C5_Witness ==
    /\ FastFinished /\ policy = "block" /\ cuts = 1
    /\ fast_ret = "false"
    /\ "leaf_incomplete" \in Range(fast_out)
    /\ leaf_points >= 7

\* the same with the stream ending before a tag byte
C5_WitnessAtTag ==
    /\ FastFinished /\ policy = "block" /\ cuts = 5
    /\ fast_ret = "false"
    /\ "leaf_incomplete" \notin Range(fast_out)

\* C6: truncation in detailed mode: on a stream that lost bytes at its end the
\* detailed analysis reports a failure and prints no statistics.
C6_DetTruncation ==
    (pc = "done" /\ policy = "block" /\ cuts >= 1) =>
        /\ "error" \in Range(det_out)
        /\ "stats" \notin Range(det_out)

\* sum over the leaves of the tree of the volume of the leaf's region
RECURSIVE LeafVoxels(_, _)
LeafVoxels(t, i) ==
    IF i > Len(t) THEN 0
    ELSE (IF t[i].is_leaf THEN Vol(t[i].size) ELSE 0) + LeafVoxels(t, i + 1)

\* C7: for the untouched stream of a block tree the detailed walk's total of
\* voxels represented is nx * ny * nz of the header (the sum of the volumes of
\* the builder's leaf regions), and no mismatch warning is printed.
C7_DetVoxelTotal ==
    (pc = "done" /\ policy = "block" /\ cuts = 0) =>
        /\ det_ret[1] = dims[1] * dims[2] * dims[3]
        /\ det_ret[1] = total_voxels
        /\ det_ret[1] = LeafVoxels(tree, 1)
        /\ "mismatch_warning" \notin Range(det_out)
        /\ "levels" \in Range(det_out)

C7_Witness ==
    /\ pc = "done" /\ policy = "block" /\ cuts = 0
    /\ dims = <<3, 3, 3>>
    /\ det_ret = <<27, 15, 2>>

\* the depth bound of the claim for the policy of the build
DepthBound == IF policy = "block" THEN CeilLog2(Max3(dims)) + 1 ELSE max_depth

\* the number of nodes of the full octree of depth d
RECURSIVE FullTree(_)
FullTree(d) == IF d = 0 THEN 1 ELSE 1 + 8 * FullTree(d - 1)

\* C8: builder termination: no node is created (and no constructor call is
\* pending) at a depth above ceil(log2(max(nx,ny,nz))) + 1 under the block-value
\* policy or above max_depth under the point-sample policy; the build always has
\* a next call until it is over and makes no more nodes than the full octree of
\* that depth has.
C8_BuildDepth ==
    /\ \A i \in 1 .. Len(tree) : tree[i].depth <= DepthBound
    /\ \A i \in 1 .. Len(work) : work[i].depth <= DepthBound
    /\ Len(tree) <= FullTree(DepthBound)
    /\ pc = "build" <=> work # <<>>

C8_Witness ==
    /\ pc = "save"
    /\ policy = "point"
    /\ max_depth = 1
    /\ Len(tree) = 9
    /\ \E i \in 1 .. Len(tree) : tree[i].depth = 1 /\ Min3(tree[i].size) >= 2

C8_WitnessBlock ==
    /\ pc = "save"
    /\ policy = "block"
    /\ \E i \in 1 .. Len(tree) : tree[i].depth = 2

\* the bytes of the float32 values 0.0, 7.0, 50.0 and 51.0, least significant first
UniformFloat(v) ==
    CASE v = 0 -> <<0, 0, 0, 0>>
      [] v = 7 -> <<0, 0, 224, 64>>
      [] v = 50 -> <<0, 0, 72, 66>>
      [] v = 51 -> <<0, 0, 76, 66>>

\* C9: uniform volume: both builders make the root a leaf; the block stream is
\* the 12-byte header, the tag 0 and the float v (17 bytes); the fast walk
\* reports 1 node, 1 leaf, 0 internal nodes and the ratio nx*ny*nz / 1.
C9_UniformVolume ==
    (IsUniform(data) /\ pc # "partition") =>
        /\ pc # "build" => Len(tree) = 1 /\ tree[1].is_leaf
        /\ (Written /\ policy = "block" /\ cuts = 0) =>
               /\ stream = U32LE(dims[1]) \o U32LE(dims[2]) \o U32LE(dims[3])
                           \o <<0>> \o UniformFloat(data[<<0, 0, 0>>])
               /\ Len(stream) = 17
        /\ (FastFinished /\ policy = "block" /\ cuts = 0) =>
               /\ fast_ret = "true"
               /\ total_points = 1 /\ leaf_points = 1 /\ internal_nodes = 0
               /\ total_voxels = dims[1] * dims[2] * dims[3]
               /\ "ratio" \in Range(fast_out)

C9_Witness ==
    /\ dims = <<4, 4, 4>> /\ data = UniformData(dims, 7)
    /\ policy = "block" /\ cuts = 0 /\ FastFinished
    /\ total_points = 1 /\ total_voxels = 64
    /\ stream = <<4, 0, 0, 0, 4, 0, 0, 0, 4, 0, 0, 0, 0, 0, 0, 224, 64>>

C9_WitnessPoint ==
    /\ IsUniform(data) /\ policy = "point" /\ max_depth >= 1 /\ Min3(dims) >= 2
    /\ pc = "save" /\ Len(tree) = 1 /\ tree[1].is_leaf

\* C10: maximal fluctuation: the block-value build of the 8 x 8 x 8 volume of
\* alternating 0 and 1000 ends, every leaf covers a 1 x 1 x 1 region, every node
\* at a depth below 3 is internal, and the tree has 512 leaves and 73 internal
\* nodes.
C10_CheckerCube ==
    /\ \A i \in 1 .. Len(tree) :
           /\ tree[i].is_leaf => tree[i].size = <<1, 1, 1>>
           /\ tree[i].depth < 3 => ~tree[i].is_leaf
           /\ tree[i].depth <= 3
    /\ pc = "build" <=> work # <<>>
    /\ pc # "build" => Leaves(tree) = 512 /\ Internals(tree) = 73

C10_Witness ==
    /\ pc = "done" /\ cuts = 0
    /\ dims = <<8, 8, 8>>
    /\ Leaves(tree) = 512
    /\ leaf_points = 512

\* the encoded length of one node without its children
NodeLen(node) == IF ~node.is_leaf THEN 1 ELSE IF policy = "block" THEN 5 ELSE 17

\* the offset of the tag of node i of the pre-order sequence t in the stream
RECURSIVE TagPos(_, _)
TagPos(t, i) == IF i = 1 THEN 12 ELSE TagPos(t, i - 1) + NodeLen(t[i - 1])

\* the index after the subtree of node i: the next node that is not deeper
SubtreeEnd(t, i) ==
    LET later == {j \in i + 1 .. Len(t) : t[j].depth <= t[i].depth}
    IN  IF later = {} THEN Len(t) + 1 ELSE CHOOSE j \in later : \A k \in later : j <= k

\* the children of node i: the nodes of its subtree one level deeper
KidsOf(t, i) == {j \in i + 1 .. SubtreeEnd(t, i) - 1 : t[j].depth = t[i].depth + 1}

\* the k-th child of node i is the k-th constructor call node i made
KidsInCreationOrder(t, i) ==
    /\ Cardinality(KidsOf(t, i)) = 8
    /\ \A j \in KidsOf(t, i) :
          LET k == Cardinality({j2 \in KidsOf(t, i) : j2 <= j})
              c == ChildCalls(t[i])[k]
          IN  t[j].min_coord = c.min_coord /\ t[j].size = c.size

\* C11: encoder layout: the untouched stream is the 12-byte header holding nx, ny,
\* nz, then the nodes in pre-order, an internal node as the tag 1 followed by its
\* 8 children in creation order, a leaf as the tag 0 and its payload (the value,
\* and the position in a point tree); its length is 12 + I + 5 L bytes for a
\* block tree and 12 + I + 17 L bytes for a point tree.
C11_EncoderLayout ==
    (Written /\ cuts = 0) =>
        /\ Len(stream) = 12 + Internals(tree)
                            + (IF policy = "block" THEN 5 ELSE 17) * Leaves(tree)
        /\ \A a \in 1 .. 3 : FromU32LE(SubSeq(stream, 4 * a - 3, 4 * a)) = dims[a]
        /\ \A i \in 1 .. Len(tree) :
              LET p == TagPos(tree, i)
              IN  IF tree[i].is_leaf
                  THEN /\ stream[p + 1] = 0
                       /\ SubSeq(stream, p + 2, p + 5) = F32LE(tree[i].value)
                       /\ policy = "point" =>
                             \A a \in 1 .. 3 :
                                 SubSeq(stream, p + 2 + 4 * a, p + 5 + 4 * a)
                                     = F32LE(<<tree[i].position[a], 1>>)
                  ELSE /\ stream[p + 1] = 1
                       /\ KidsInCreationOrder(tree, i)

C11_Witness ==
    /\ Written /\ cuts = 0
    /\ policy = "point"
    /\ Internals(tree) >= 2
    /\ Len(stream) = 12 + Internals(tree) + 17 * Leaves(tree)
    /\ stream[13] = 1 /\ stream[14] = 1

(***************************************************************************)
(* Volumes with a dimension of 0: the block builder, the encoder and the   *)
(* analyzer run on an empty array.                                         *)
(***************************************************************************)
InitZero ==
    /\ dims \in {d \in (0 .. MaxDim) \X (0 .. MaxDim) \X (0 .. MaxDim) : Min3(d) = 0}
    /\ data = UniformData(dims, 0)
    /\ policy = "block"
    /\ max_depth = 0
    /\ pc = "build"
    /\ work = << RootCall(dims) >>
    /\ tree = <<>>
    /\ Idle
    /\ PartIdle
    /\ AppIdle

SpecZero == InitZero /\ [][Next]_vars

\* C12: configuration errors fail fast: with nx, ny or nz = 0 no node is
\* constructed and nothing is written, and the analyzer given a header with such
\* dimensions parses no node and outputs no statistic.
C12_ZeroDimsFailFast ==
    Min3(dims) = 0 =>
        /\ tree = <<>>
        /\ stream = <<>>
        /\ total_points = 0
        /\ level_stats = NoStats
        /\ "stats" \notin Range(fast_out) \cup Range(det_out)

\* C13: dimension mismatch is non-fatal: when the voxel total of the detailed
\* walk differs from nx * ny * nz, the report still has its totals and its
\* per-level table, ends with the mismatch warning and has no error message.
C13_MismatchNonFatal ==
    (pc = "done" /\ det_ret # <<>> /\ det_ret[1] # total_voxels) =>
        /\ {"stats", "total_nodes", "ratio", "avg_leaf", "levels"} \subseteq Range(det_out)
        /\ det_out[Len(det_out)] = "mismatch_warning"
        /\ "error" \notin Range(det_out)

(***************************************************************************)
(* app.py: the handler of POST /generate-ply.                              *)
(* A parameter of the JSON body is [t, v]: t the JSON type ("number",      *)
(* "bool", "string", "null" for an absent key), v its numeric value (a     *)
(* boolean is 0 or 1).  The data file is [readable, len, values]: whether  *)
(* np.fromfile succeeds, the number of samples and the set of the sample   *)
(* values it holds.                                                        *)
(***************************************************************************)
\* the greatest parameter and sample value
MaxVal == 2

\* n1, n2, n3 = 210, 676, 676
n1 == 210
n2 == 676
n3 == 676

\* expected_size = n1 * n2 * n3
expected_size == n1 * n2 * n3

\* isinstance(x, (int, float)): true of the JSON numbers and, bool being a
\* subclass of int, of the JSON booleans
IsNumber(x) == x.t \in {"number", "bool"}

\* Response(text, status=...)
ErrorResponse(status) == [status |-> status, content_type |-> "text/html"]

\* send_file(output, mimetype='application/octet-stream', ...)
PlyResponse == [status |-> 200, content_type |-> "application/octet-stream"]

\* mutant of Mask: the range without its two ends
MaskExclusive(values, min_val, max_val) == {v \in values : v > min_val /\ v < max_val}

\* mask = (values_flat >= min_val) & (values_flat <= max_val): the sample values kept
Mask(values, min_val, max_val) == {v \in values : v >= min_val /\ v <= max_val}

\* generate_ply
generate_ply(min_val, max_val, file) ==
    IF ~IsNumber(min_val) \/ ~IsNumber(max_val) THEN ErrorResponse(400)
    ELSE IF min_val.v >= max_val.v THEN ErrorResponse(400)
    ELSE IF ~file.readable THEN ErrorResponse(500)
    ELSE IF file.len # expected_size THEN ErrorResponse(500)
    ELSE IF Mask(file.values, min_val.v, max_val.v) = {} THEN ErrorResponse(400)
    ELSE PlyResponse

\* the values a parameter of the body can take
JsonValues ==
    [t : {"number"}, v : 0 .. MaxVal] \cup [t : {"bool"}, v : {0, 1}]
        \cup [t : {"string", "null"}, v : {0}]

\* the data files: missing, of a wrong size, or complete with some sample values
DataFiles ==
    {[readable |-> FALSE, len |-> 0, values |-> {}]}
        \cup [readable : {TRUE}, len : {expected_size - 1}, values : {{0}}]
        \cup [readable : {TRUE}, len : {expected_size}, values : (SUBSET (0 .. MaxVal)) \ {{}}]

InitApp ==
    /\ req \in [min_val : JsonValues, max_val : JsonValues, file : DataFiles]
    /\ resp = <<>>
    /\ pc = "request"
    /\ dims = <<1, 1, 1>>
    /\ data = UniformData(dims, 0)
    /\ policy = "block"
    /\ max_depth = 0
    /\ work = <<>>
    /\ tree = <<>>
    /\ Idle
    /\ PartIdle

\* one request handled
GeneratePly ==
    /\ pc = "request"
    /\ resp' = generate_ply(req.min_val, req.max_val, req.file)
    /\ pc' = "responded"
    /\ UNCHANGED <<inputVars, buildVars, stream, cuts, fpos, total_voxels, fastVars, detVars,
                   partVars, req>>

NextApp == GeneratePly

SpecApp == InitApp /\ [][NextApp]_vars

\* the request has numeric parameters with min_val < max_val and the data file is
\* readable and has the expected size
ValidRequest ==
    /\ req.min_val.t = "number" /\ req.max_val.t = "number"
    /\ req.min_val.v < req.max_val.v
    /\ req.file.readable /\ req.file.len = expected_size

\* C14 as claimed: every valid request is answered with status 200 and content
\* type application/octet-stream; a non-numeric parameter or min_val >= max_val
\* with status 400.
C14_ValidRequest200 ==
    pc = "responded" =>
        /\ ValidRequest =>
              resp.status = 200 /\ resp.content_type = "application/octet-stream"
        /\ (req.min_val.t # "number" \/ req.max_val.t # "number"
              \/ req.min_val.v >= req.max_val.v) => resp.status = 400

\* the parameter is accepted as a number by the handler: a JSON number or boolean
Accepted(x) == x.t \in {"number", "bool"}

\* C14 amended: a request with numeric min_val < max_val and a complete data file
\* is answered with 200 and application/octet-stream exactly when some sample
\* lies in [min_val, max_val], and with 400 when none does; a parameter that is
\* neither a number nor a boolean, or min_val >= max_val, gives 400; booleans
\* are taken as the numbers 0 and 1.
C14_Response ==
    pc = "responded" =>
        LET lo == req.min_val.v
            hi == req.max_val.v
            complete == req.file.readable /\ req.file.len = expected_size
            hit == \E v \in req.file.values : lo <= v /\ v <= hi
        IN  /\ (~Accepted(req.min_val) \/ ~Accepted(req.max_val)) => resp.status = 400
            /\ (Accepted(req.min_val) /\ Accepted(req.max_val) /\ lo >= hi) => resp.status = 400
            /\ (Accepted(req.min_val) /\ Accepted(req.max_val) /\ lo < hi /\ complete) =>
                  IF hit
                  THEN resp.status = 200 /\ resp.content_type = "application/octet-stream"
                  ELSE resp.status = 400

C14_Witness ==
    /\ pc = "responded"
    /\ ValidRequest
    /\ req.file.values = {0}
    /\ req.min_val.v = 1
    /\ resp.status = 400

(***************************************************************************)
(* The constructors called on any region: the root call has any origin on  *)
(* the diagonal, any size (0 included) and, for the point builder, any     *)
(* depth and max_depth; the region may reach beyond the volume.            *)
(***************************************************************************)
\* the greatest size component of the region of the root call
MaxRegSize == 2

RegionDims == {<<2, 1, 1>>, <<2, 2, 2>>}

RegionVolumes(d) ==
    {CheckerData(d), UniformData(d, 7), HotData(d, <<0, 0, 0>>, 50), HotData(d, <<0, 0, 0>>, 51)}

InitRegion ==
    /\ dims \in RegionDims
    /\ data \in RegionVolumes(dims)
    /\ policy \in {"block", "point"}
    /\ max_depth \in IF policy = "point" THEN 0 .. MaxDepthCap ELSE {0}
    /\ pc = "build"
    /\ \E o \in 0 .. MaxOrigin, s \in (0 .. MaxRegSize) \X (0 .. MaxRegSize) \X (0 .. MaxRegSize),
          d \in 0 .. MaxDepthCap :
          /\ policy = "block" => d = 0
          /\ work = << [min_coord |-> <<o, o, o>>, size |-> s, depth |-> d] >>
    /\ tree = <<>>
    /\ Idle
    /\ PartIdle
    /\ AppIdle

NextRegion == BuildStep

SpecRegion == InitRegion /\ [][NextRegion]_vars

\* the sample values inside a region
RegionValues(min_coord, size) == {data[c] : c \in RegionCells(min_coord, size) \cap DOMAIN data}

\* the leaf conditions of the block-value policy, from the region and the samples
BlockLeafCondition(min_coord, size) ==
    \/ size[1] <= 1 /\ size[2] <= 1 /\ size[3] <= 1
    \/ RegionValues(min_coord, size) = {}
    \/ \A a, b \in RegionValues(min_coord, size) : a - b <= 50
    \/ size[1] < 2 \/ size[2] < 2 \/ size[3] < 2

\* C15: block-value leaf decision: a node of a block tree is a leaf exactly when
\* its region has all sizes <= 1, or holds no sample, or max - min of its
\* samples is <= 50, or its smallest size is < 2; every other node is internal
\* and, once the build is over, has exactly 8 children in partition order.
C15_BlockLeafDecision ==
    policy = "block" =>
        \A i \in 1 .. Len(tree) :
            /\ tree[i].is_leaf <=> BlockLeafCondition(tree[i].min_coord, tree[i].size)
            /\ (~tree[i].is_leaf /\ pc # "build") =>
                  /\ KidsInCreationOrder(tree, i)
                  /\ \A j \in KidsOf(tree, i) :
                        \E k \in 1 .. 8 :
                            /\ tree[j].min_coord = OctreeChildren(tree[i].min_coord, tree[i].size)[k].min_coord
                            /\ tree[j].size = OctreeChildren(tree[i].min_coord, tree[i].size)[k].size

\* the boundary: a root region of fluctuation 51 split into 8 leaves
C15_Witness ==
    /\ policy = "block" /\ pc # "build"
    /\ Len(tree) = 9
    /\ ~tree[1].is_leaf
    /\ RegionValues(tree[1].min_coord, tree[1].size) = {0, 51}

\* the boundary: a root region of fluctuation 50 and sizes 2 is a leaf
C15_WitnessLeaf50 ==
    /\ policy = "block" /\ pc # "build"
    /\ tree[1].is_leaf
    /\ tree[1].size = <<2, 2, 2>>
    /\ RegionValues(tree[1].min_coord, tree[1].size) = {0, 50}

\* C16: point-sample leaf decision: a node made by PointOctreeNode is a leaf
\* exactly when OctreeNode makes a leaf of the same region or its depth is at
\* least max_depth; at the depth cap it is a leaf whatever the fluctuation.
C16_PointLeafDecision ==
    policy = "point" =>
        \A i \in 1 .. Len(tree) :
            LET call == [min_coord |-> tree[i].min_coord, size |-> tree[i].size,
                         depth |-> tree[i].depth]
            IN  /\ tree[i].is_leaf <=> (OctreeNode(call).is_leaf \/ tree[i].depth >= max_depth)
                /\ tree[i].depth >= max_depth => tree[i].is_leaf

\* a region the block policy splits, made a leaf by the depth cap
C16_Witness ==
    /\ policy = "point"
    /\ Len(tree) = 1
    /\ tree[1].is_leaf
    /\ tree[1].depth = 1 /\ max_depth = 1
    /\ ~BlockLeafCondition(tree[1].min_coord, tree[1].size)

\* C17: point-sample leaf value: every leaf of a point tree stores the
\* coordinate origin + size // 2 and, when that coordinate is inside the volume,
\* the sample there; when it is outside, on every leaf-creating path, the mean of
\* the samples of the region, or 0 if the region holds none.
C17_PointLeafValue ==
    policy = "point" =>
        \A i \in 1 .. Len(tree) :
            tree[i].is_leaf =>
                LET o == tree[i].min_coord
                    s == tree[i].size
                    c == << o[1] + s[1] \div 2, o[2] + s[2] \div 2, o[3] + s[3] \div 2 >>
                    cells == RegionCells(o, s) \cap DOMAIN data
                    v == tree[i].value
                IN  /\ tree[i].position = c
                    /\ IF c \in DOMAIN data
                       THEN v[1] = data[c] * v[2]
                       ELSE IF cells = {}
                       THEN v[1] = 0
                       ELSE v[1] * Cardinality(cells) = SumOver(cells, data) * v[2]

\* the regions handed to a constructor so far: those of the nodes made and of the
\* calls pending
Regions ==
    {[min_coord |-> tree[i].min_coord, size |-> tree[i].size] : i \in 1 .. Len(tree)}
        \cup {[min_coord |-> work[i].min_coord, size |-> work[i].size] : i \in 1 .. Len(work)}

\* C18: region invariant: in a build from the root region of a volume with nx,
\* ny, nz >= 1, under either policy, every region a node is constructed for has
\* its three sizes >= 1, and a node is split only when min(sx, sy, sz) >= 2.
C18_RegionSizes ==
    /\ \A r \in Regions : r.size[1] >= 1 /\ r.size[2] >= 1 /\ r.size[3] >= 1
    /\ \A i \in 1 .. Len(tree) :
          ~tree[i].is_leaf =>
              tree[i].size[1] >= 2 /\ tree[i].size[2] >= 2 /\ tree[i].size[3] >= 2

\* a split region of odd size: its children have sizes 2 and 1
C18_Witness ==
    /\ pc = "save"
    /\ dims = <<3, 3, 3>>
    /\ ~tree[1].is_leaf
    /\ \E i, j \in 2 .. Len(tree) : tree[i].size = <<2, 2, 2>> /\ tree[j].size = <<1, 1, 1>>

\* C19: bounds invariant: in a build from the root region, every region handed
\* to a constructor lies inside the volume, the sample a leaf reads lies inside the
\* leaf's region, and the center origin + size // 2 of a point leaf lies inside
\* its region and the volume.
C19_RegionsInVolume ==
    /\ \A r \in Regions :
          /\ \A a \in 1 .. 3 : 0 <= r.min_coord[a] /\ r.min_coord[a] + r.size[a] <= dims[a]
          /\ RegionCells(r.min_coord, r.size) \subseteq DOMAIN data
    /\ \A i \in 1 .. Len(tree) :
          LET cells == RegionCells(tree[i].min_coord, tree[i].size)
          IN  /\ SubData(tree[i].min_coord, tree[i].size) \subseteq cells
              /\ (tree[i].is_leaf /\ policy = "point") =>
                    /\ tree[i].position \in cells
                    /\ tree[i].position \in DOMAIN data
                    /\ \A a \in 1 .. 3 :
                          tree[i].position[a] = tree[i].min_coord[a] + tree[i].size[a] \div 2
                    /\ tree[i].value = <<data[tree[i].position], 1>>

\* a point tree with leaves of size 1 at the far corner of the volume
C19_Witness ==
    /\ pc = "save"
    /\ policy = "point"
    /\ dims = <<3, 3, 3>>
    /\ \E i \in 2 .. Len(tree) :
          tree[i].is_leaf /\ tree[i].size = <<1, 1, 1>> /\ tree[i].position = <<2, 2, 2>>

\* the nodes the detailed walk has parsed: the sum of the per-level counts
RECURSIVE ParsedFrom(_, _)
ParsedFrom(ls, l) ==
    IF l \notin DOMAIN ls THEN 0
    ELSE ls[l].leaves + ls[l].internals + ParsedFrom(ls, l + 1)

\* the ancestor at depth d of node i: the last node before i of that depth
AncestorAt(t, i, d) == CHOOSE a \in 1 .. i - 1 : t[a].depth = d /\ \A b \in a + 1 .. i - 1 : t[b].depth > d

\* the number of the children of node a that have been started when node i is parsed
KidsStarted(t, a, i) == Cardinality({c \in KidsOf(t, a) : c <= i})

\* C20: decoder walk order: on the untouched stream of a block tree, in both
\* walks, the k-th call reads the tag of the k-th node in pre-order at recursion
\* depth equal to the node's depth; every active internal call is parsing one of
\* its 8 children in order; the walk ends, with the root call returning, exactly
\* when every node has been parsed once and the file has been read to its end.
C20_WalkOrder ==
    (policy = "block" /\ cuts = 0) =>
        /\ pc = "fast" =>
              LET k == total_points
              IN  /\ k <= Len(tree)
                  /\ fpos = TagPos(tree, k + 1)
                  /\ leaf_points = Leaves(SubSeq(tree, 1, k))
                  /\ IF fast_ret = "none"
                     THEN /\ k < Len(tree)
                          /\ Len(fstack) = tree[k + 1].depth
                          /\ \A j \in 1 .. Len(fstack) :
                                fstack[j] = 9 - KidsStarted(tree, AncestorAt(tree, k + 1, Len(fstack) - j), k + 1)
                     ELSE /\ fast_ret = "true"
                          /\ k = Len(tree)
                          /\ fstack = <<>>
                          /\ fpos = Len(stream)
        /\ pc = "detailed" =>
              LET k == ParsedFrom(level_stats, 0)
              IN  /\ k <= Len(tree)
                  /\ fpos = TagPos(tree, k + 1)
                  /\ IF det_ret = <<>>
                     THEN /\ k < Len(tree)
                          /\ Len(dstack) = tree[k + 1].depth
                          /\ DetNextCall.level = tree[k + 1].depth
                          /\ \A j \in 1 .. Len(dstack) :
                                Len(dstack[j].todo) = 9 - KidsStarted(tree, AncestorAt(tree, k + 1, Len(dstack) - j), k + 1)
                     ELSE /\ k = Len(tree)
                          /\ dstack = <<>>
                          /\ fpos = Len(stream)
                          /\ det_ret[2] = Leaves(tree) /\ det_ret[3] = Internals(tree)

\* the detailed walk two levels deep, about to parse the 6th child of a child
C20_Witness ==
    /\ policy = "block" /\ cuts = 0
    /\ pc = "detailed" /\ det_ret = <<>>
    /\ Len(dstack) = 2
    /\ Len(dstack[1].todo) = 3
    /\ total_points = Len(tree)

\* the fast walk two levels deep, about to parse the last child of the last child
C20_WitnessFast ==
    /\ policy = "block" /\ cuts = 0
    /\ pc = "fast" /\ fast_ret = "none"
    /\ fstack = <<1, 1>>
    /\ total_points = Len(tree) - 1

(***************************************************************************)
(* The analyzer on files that no builder wrote: any header, and a body     *)
(* that encodes a tree of a given shape with any non-zero tag for its      *)
(* internal nodes; the file may then lose bytes at its end.                *)
(***************************************************************************)
\* the greatest dimension in the header of such a file
MaxHdr == 2

\* the greatest number of internal nodes below the root
MaxPath == 2

\* a leaf whose payload bytes look like tags
ShapeLeaf == <<0, 1, 0, 2, 0>>

\* the encoding of an internal node whose child Head(path) is internal in turn,
\* along path; all other children are leaves
RECURSIVE ShapeBytes(_, _), ShapeKids(_, _, _)
ShapeBytes(path, tag) == <<tag>> \o ShapeKids(path, tag, 1)

ShapeKids(path, tag, i) ==
    IF i > 8 THEN <<>>
    ELSE (IF path # <<>> /\ Head(path) = i THEN ShapeBytes(Tail(path), tag) ELSE ShapeLeaf)
            \o ShapeKids(path, tag, i + 1)

RECURSIVE Paths(_)
Paths(n) ==
    IF n = 0 THEN {<<>>}
    ELSE Paths(n - 1) \cup {<<i>> \o p : i \in {1, 8}, p \in {q \in Paths(n - 1) : Len(q) = n - 1}}

ShapeBodies == {ShapeLeaf} \cup {ShapeBytes(p, tag) : p \in Paths(MaxPath), tag \in {1, 2}}

InitStream ==
    /\ dims \in (0 .. MaxHdr) \X (0 .. MaxHdr) \X (0 .. MaxHdr)
    /\ data = UniformData(dims, 0)
    /\ policy = "block"
    /\ max_depth = 0
    /\ pc = "written"
    /\ work = <<>>
    /\ tree = <<>>
    /\ stream \in {Header(dims) \o b : b \in ShapeBodies}
    /\ cuts = 0 /\ fpos = 0 /\ total_voxels = 0
    /\ fstack = <<>> /\ total_points = 0 /\ leaf_points = 0 /\ internal_nodes = 0
    /\ fast_ret = "none" /\ fast_out = <<>>
    /\ dstack = <<>> /\ level_stats = NoStats /\ det_ret = <<>> /\ det_out = <<>>
    /\ PartIdle
    /\ AppIdle

NextStream ==
    \/ Truncate
    \/ FastOpen
    \/ FastParseNode
    \/ FastReport
    \/ DetOpen
    \/ DetParseNode
    \/ DetReport

SpecStream == InitStream /\ [][NextStream]_vars

\* C21: empty-region fallback: a constructor call on a region with a size
\* component of 0, which holds no sample, makes under either policy a single
\* leaf of value 0 with no children.
C21_EmptyRegionLeaf ==
    (tree # <<>> /\ Min3(tree[1].size) = 0) =>
        /\ Len(tree) = 1
        /\ work = <<>>
        /\ tree[1].is_leaf
        /\ tree[1].value[1] = 0

\* the offset after the encoding of the node whose tag is at offset p of the
\* bytes b, or -1 when the encoding is cut short: a leaf is its tag and 4 bytes,
\* an internal node its tag and 8 encodings
RECURSIVE EncEnd(_, _), KidsEnd(_, _, _)
EncEnd(b, p) ==
    IF p < 0 \/ p >= Len(b) THEN -1
    ELSE IF b[p + 1] = 0 THEN (IF p + 5 <= Len(b) THEN p + 5 ELSE -1)
    ELSE KidsEnd(b, p + 1, 8)

KidsEnd(b, p, k) == IF k = 0 \/ p = -1 THEN p ELSE KidsEnd(b, EncEnd(b, p), k - 1)

\* the file holds a header and the complete encoding of a tree
Complete(b) == Len(b) >= 12 /\ EncEnd(b, 12) # -1

\* C22: the voxel cross-check is blind to the tree shape: on every complete
\* stream, whatever its header, the voxel total of the detailed walk is
\* nx * ny * nz and no mismatch warning is printed; a warning is printed only
\* for a stream that ends early.
C22_VoxelTotalComplete ==
    pc = "done" =>
        /\ Complete(stream) =>
              /\ det_ret # <<>>
              /\ det_ret[1] = Vol(HeaderDims(stream))
              /\ "mismatch_warning" \notin Range(det_out)
        /\ "mismatch_warning" \in Range(det_out) => ~Complete(stream)

\* a complete stream three levels deep behind a header too small for that depth
C22_Witness ==
    /\ pc = "done"
    /\ Complete(stream)
    /\ cuts = 0
    /\ dims = <<1, 2, 2>>
    /\ det_ret[3] = 3
    /\ det_ret[1] = 4

\* a warning on a stream that lost its last bytes
C22_WitnessWarning ==
    /\ pc = "done"
    /\ cuts > 0
    /\ "mismatch_warning" \in Range(det_out)

\* the sum of the field f of level_stats over the levels from l on
RECURSIVE LevelSum(_, _, _)
LevelSum(ls, l, f) == IF l \notin DOMAIN ls THEN 0 ELSE ls[l][f] + LevelSum(ls, l + 1, f)

\* C23: the two walks agree: on every complete stream with 4-byte leaf payloads
\* the leaf and internal counts returned by parse_node_detailed are leaf_points
\* and internal_nodes of count_octree_points, and the per-level leaf, internal
\* and voxel counts add up to the totals of the detailed walk.
C23_WalksAgree ==
    (pc = "done" /\ Complete(stream)) =>
        /\ fast_ret = "true"
        /\ det_ret[2] = leaf_points
        /\ det_ret[3] = internal_nodes
        /\ LevelSum(level_stats, 0, "leaves") = det_ret[2]
        /\ LevelSum(level_stats, 0, "internals") = det_ret[3]
        /\ LevelSum(level_stats, 0, "voxels") = det_ret[1]

\* both walks done on a complete stream with internal nodes on three levels
C23_Witness ==
    /\ pc = "done" /\ Complete(stream)
    /\ internal_nodes = 3 /\ leaf_points = 22
    /\ DOMAIN level_stats = 0 .. 3
    /\ stream[13] = 2

\* C24: full-octree counting: every built tree has 7 I + 1 leaves and 8 I + 1
\* nodes for its I internal nodes, and so have the counts of every stream the
\* fast walk parses successfully.
C24_FullOctreeCounts ==
    /\ pc # "build" =>
          /\ Leaves(tree) = 7 * Internals(tree) + 1
          /\ Len(tree) = 8 * Internals(tree) + 1
    /\ fast_ret = "true" =>
          /\ leaf_points = 7 * internal_nodes + 1
          /\ total_points = 8 * internal_nodes + 1

\* a tree with nested internal nodes, built and then parsed by the fast walk
C24_Witness ==
    /\ pc = "fast_done"
    /\ fast_ret = "true"
    /\ Internals(tree) = 9 /\ Leaves(tree) = 64
    /\ internal_nodes = 9 /\ leaf_points = 64

\* the regions the block-value policy subdivides in the build started by call
RECURSIVE BlockSplits(_)
BlockSplits(call) ==
    IF OctreeNode(call).is_leaf THEN {}
    ELSE LET kids == OctreeChildren(call.min_coord, call.size)
         IN  {[min_coord |-> call.min_coord, size |-> call.size]}
                \cup UNION {BlockSplits([min_coord |-> kids[i].min_coord, size |-> kids[i].size,
                                         depth |-> call.depth + 1]) : i \in 1 .. 8}

\* the regions subdivided in the tree t
SplitRegions(t) ==
    {[min_coord |-> t[i].min_coord, size |-> t[i].size] : i \in {j \in 1 .. Len(t) : ~t[j].is_leaf}}

\* C25: with max_depth = floor(log2(min(nx, ny, nz))) + 1 the depth cap changes
\* nothing: the finished point-sample tree subdivides exactly the regions the
\* block-value policy subdivides on the same volume, so the two trees have the
\* same numbers of internal nodes and of leaves.
C25_MainDepthCapNeutral ==
    (policy = "point" /\ max_depth = MainMaxDepth(dims) /\ pc # "build") =>
        LET splits == BlockSplits(RootCall(dims))
        IN  /\ SplitRegions(tree) = splits
            /\ Internals(tree) = Cardinality(splits)
            /\ Leaves(tree) = 7 * Cardinality(splits) + 1
            /\ \A i \in 1 .. Len(tree) : tree[i].depth <= max_depth

\* a point tree under main's max_depth whose regions of size 2 at depth 1 are split
C25_Witness ==
    /\ policy = "point" /\ max_depth = MainMaxDepth(dims) /\ pc = "save"
    /\ dims = <<3, 3, 3>>
    /\ max_depth = 2
    /\ \E i \in 2 .. Len(tree) : ~tree[i].is_leaf /\ tree[i].depth = 1

\* C26: the decoder on arbitrary input: in both walks the read position stays
\* within the file, and a node is counted as a leaf or an internal node only when
\* its bytes (the tag, and the 4 payload bytes of a leaf) were read before the end
\* of the stream was reached.
C26_CountsWithinStream ==
    Len(stream) >= 12 =>
        /\ pc \in {"fast", "fast_done"} =>
              /\ fpos <= Len(stream)
              /\ 12 + 5 * leaf_points + internal_nodes <= fpos
        /\ pc \in {"detailed", "done"} =>
              /\ fpos <= Len(stream)
              /\ 12 + 5 * LevelSum(level_stats, 0, "leaves")
                    + LevelSum(level_stats, 0, "internals") <= fpos

====
